---- MODULE Spec2Model ----
(***************************************************************************)
(* A model of cargo-folderinfo (src/src/main.rs): the manifest-tree        *)
(* builder process_folder, the word wrapper pad_text, the crate-name       *)
(* index and the text and dot renderers.                                   *)
(*                                                                         *)
(* Strings are sequences of one-character strings, so that len(), split,   *)
(* join and starts_with are computed as the code computes them.            *)
(***************************************************************************)
EXTENDS Integers, Sequences, FiniteSets, TLC

VARIABLES
    pc,               \* position of the program / of the operation applied
    s,                \* pad_text: the text to wrap
    max_column_size,  \* pad_text: the column budget
    formatted,        \* pad_text: the returned Vec<String>
    overflow_checks,  \* build profile: TRUE panics on usize overflow (debug),
                      \* FALSE wraps modulo 2^64 (release)
    folder_len,       \* print_project_1: p.folder.len()
    level,            \* print_project_1: the depth of the node
    budget,           \* print_project_1: the value of padded_text_len
    opt,              \* main: the parsed command line (Opt)
    all,              \* main: the Project tree returned by process_folder
    ignore_crates,    \* main: the ignore StringSet
    highlight_crates, \* main: the highlight StringSet, as its keys in the
                      \* iteration order of this run's HashMap
    edge,             \* print_nodes_1: the (from, to) pair being printed
    stdout,           \* the lines printed so far
    manifest,         \* process_folder: the Cargo.toml being read, as declared
    parsed,           \* process_folder: name, desc and deps after the loop
    fs,               \* the directory tree under ".": kind and manifest of each entry
    stack,            \* the active calls of process_folder, innermost last
    calls,            \* history: the paths process_folder was called on
    listed            \* history: the entries read_dir has yielded

padVars == <<s, max_column_size, formatted>>
budgetVars == <<folder_len, level, budget>>
mainVars == <<opt, all, ignore_crates, highlight_crates, edge, stdout>>
tomlVars == <<manifest, parsed>>
walkVars == <<fs, stack, calls, listed>>
vars == <<pc, s, max_column_size, formatted, overflow_checks, folder_len, level, budget,
          opt, all, ignore_crates, highlight_crates, edge, stdout, manifest, parsed,
          fs, stack, calls, listed>>

None == [kind |-> "none"]
PadIdle == s = <<>> /\ max_column_size = 0 /\ formatted = <<>>
BudgetIdle == folder_len = 0 /\ level = 0 /\ budget = None
TomlIdle == manifest = None /\ parsed = None
WalkIdle == fs = <<>> /\ stack = <<>> /\ calls = <<>> /\ listed = {}
MainIdle ==
    /\ opt = [format |-> None, ignore |-> None, highlight |-> None]
    /\ all = None
    /\ ignore_crates = {}
    /\ highlight_crates = <<>>
    /\ edge = None
    /\ stdout = <<>>

----------------------------------------------------------------------------
(* Bounds of the model                                                     *)
MaxLen == 5       \* longest text handed to pad_text
MaxCol == 4       \* largest column budget handed to pad_text
MaxFolderLen == 90 \* longest folder name of a node
MaxLevel == 3     \* deepest nesting of a node

Letters == {"a", "b"}
SP == " "
Chars == Letters \cup {SP}

RECURSIVE StringsUpTo(_, _)
StringsUpTo(alphabet, n) ==
    IF n = 0 THEN {<<>>}
    ELSE LET shorter == StringsUpTo(alphabet, n - 1)
         IN  shorter \cup {Append(t, c) : t \in {u \in shorter : Len(u) = n - 1}, c \in alphabet}

----------------------------------------------------------------------------
(* str::split(' '): the pieces between single spaces; n spaces give n + 1  *)
(* pieces, empty pieces included.                                          *)
RECURSIVE SplitOn(_, _)
SplitOn(str, c) ==
    IF \A i \in 1..Len(str) : str[i] # c THEN <<str>>
    ELSE LET i == CHOOSE k \in 1..Len(str) :
                      str[k] = c /\ \A j \in 1..(k - 1) : str[j] # c
         IN  <<SubSeq(str, 1, i - 1)>> \o SplitOn(SubSeq(str, i + 1, Len(str)), c)

Split(str) == SplitOn(str, SP)

(* One turn of the loop of pad_text: st = [current, formatted].            *)
PadStepNoSeparator(st, word, max) ==
    IF Len(word) + Len(st.current) > max
    THEN [current |-> word \o <<SP>>, formatted |-> Append(st.formatted, st.current)]
    ELSE [current |-> st.current \o word \o <<SP>>, formatted |-> st.formatted]

PadStepDrop(st, word, max) ==
    IF Len(word) + Len(st.current) + 1 > max
    THEN [current |-> word \o <<SP>>, formatted |-> st.formatted]
    ELSE [current |-> st.current \o word \o <<SP>>, formatted |-> st.formatted]

PadStep(st, word, max) ==
    IF Len(word) + Len(st.current) + 1 > max
    THEN [current |-> word \o <<SP>>, formatted |-> Append(st.formatted, st.current)]
    ELSE [current |-> st.current \o word \o <<SP>>, formatted |-> st.formatted]

RECURSIVE PadLoop(_, _, _)
PadLoop(st, words, max) ==
    IF words = <<>> THEN st
    ELSE PadLoop(PadStep(st, Head(words), max), Tail(words), max)

pad_text(str, max) ==
    LET st == PadLoop([current |-> <<>>, formatted |-> <<>>], Split(str), max)
    IN  Append(st.formatted, st.current)

----------------------------------------------------------------------------
(* The specification of pad_text applied to every bounded input.           *)
PadInit ==
    /\ pc = "call"
    /\ s \in StringsUpTo(Chars, MaxLen)
    /\ max_column_size \in 0..MaxCol
    /\ formatted = <<>>
    /\ overflow_checks \in BOOLEAN
    /\ BudgetIdle
    /\ MainIdle
    /\ TomlIdle
    /\ WalkIdle

CallPadText ==
    /\ pc = "call"
    /\ formatted' = pad_text(s, max_column_size)
    /\ pc' = "returned"
    /\ UNCHANGED <<s, max_column_size, overflow_checks, budgetVars, mainVars, tomlVars, walkVars>>

PadNext == CallPadText

SpecPad == PadInit /\ [][PadNext]_vars

(* Helpers to read the returned lines back.                                *)
RECURSIVE Concat(_)
Concat(lines) == IF lines = <<>> THEN <<>> ELSE Head(lines) \o Concat(Tail(lines))

EndsWithSpace(line) == line # <<>> /\ line[Len(line)] = SP

(* The words of a returned line: what precedes each of its spaces.         *)
WordsOfLine(line) ==
    IF line = <<>> THEN <<>> ELSE Split(SubSeq(line, 1, Len(line) - 1))

RECURSIVE WordsOfLines(_)
WordsOfLines(lines) ==
    IF lines = <<>> THEN <<>> ELSE WordsOfLine(Head(lines)) \o WordsOfLines(Tail(lines))

SingleWordLine(line) == EndsWithSpace(line) /\ Len(WordsOfLine(line)) = 1

(* C4, as stated: every returned line is at most max_column_size long,     *)
(* except a line made of a single word that is by itself longer than       *)
(* max_column_size.                                                        *)
C4_AsStated ==
    pc = "returned" =>
        \A i \in 1..Len(formatted) :
            \/ Len(formatted[i]) <= max_column_size
            \/ /\ SingleWordLine(formatted[i])
               /\ Len(WordsOfLine(formatted[i])[1]) > max_column_size

(* C4, amended: every returned line is at most max_column_size long,       *)
(* except a line made of a single word that together with its separator    *)
(* space is longer than max_column_size (a word of length >= the budget).  *)
C4_LineWithinBudget ==
    pc = "returned" =>
        \A i \in 1..Len(formatted) :
            \/ Len(formatted[i]) <= max_column_size
            \/ /\ SingleWordLine(formatted[i])
               /\ Len(WordsOfLine(formatted[i])[1]) + 1 > max_column_size

C4_Witness ==
    /\ pc = "returned"
    /\ Len(formatted) >= 3
    /\ \E i \in 1..Len(formatted) :
          Len(formatted[i]) > max_column_size /\ SingleWordLine(formatted[i])
    /\ \E i \in 1..Len(formatted) :
          Len(WordsOfLine(formatted[i])) >= 2 /\ Len(formatted[i]) = max_column_size

(* C10: pad_text loses, duplicates, splits and reorders no word: the       *)
(* returned lines concatenated are s followed by one space, the words of   *)
(* the lines in order are the words of s, and a last line is always there. *)
C10_NoWordLost ==
    pc = "returned" =>
        /\ Len(formatted) >= 1
        /\ Concat(formatted) = s \o <<SP>>
        /\ WordsOfLines(formatted) = Split(s)
        /\ \A i \in 1..Len(formatted) : formatted[i] # <<>> => EndsWithSpace(formatted[i])

C10_Witness ==
    /\ pc = "returned"
    /\ Len(formatted) >= 3
    /\ Len(Split(s)) >= 3
    /\ \E i \in 1..Len(formatted) : Len(formatted[i]) > max_column_size

----------------------------------------------------------------------------
(* usize arithmetic.  A usize is [kind |-> "ok", wrapped, val]: its value  *)
(* is val when wrapped is FALSE and 2^64 + val (val < 0) when the          *)
(* computation has wrapped below zero; [kind |-> "panic"] is the panic     *)
(* "attempt to subtract with overflow" of a build with overflow checks.    *)
Panic == [kind |-> "panic"]
USize(n) == [kind |-> "ok", wrapped |-> FALSE, val |-> n]

USub(a, b, checks) ==
    IF a >= b THEN USize(a - b)
    ELSE IF checks THEN Panic
    ELSE [kind |-> "ok", wrapped |-> TRUE, val |-> a - b]

(* x + k for a small k: a wrapped x comes back over 2^64 when val + k >= 0 *)
(* (the addition overflows, which panics under overflow checks).           *)
UAdd(x, k, checks) ==
    IF x.kind = "panic" THEN Panic
    ELSE IF ~x.wrapped THEN USize(x.val + k)
    ELSE IF x.val + k < 0 THEN [kind |-> "ok", wrapped |-> TRUE, val |-> x.val + k]
    ELSE IF checks THEN Panic
    ELSE USize(x.val + k)

max_size == 80

(* let padded_text_len = max_size - p.folder.len() + 3 + 4 * level;        *)
padded_text_len_minus(n, d, checks) ==
    USub(max_size, n + 3 + 4 * d, checks)

padded_text_len(n, d, checks) ==
    UAdd(UAdd(USub(max_size, n, checks), 3, checks), 4 * d, checks)

(* The specification of the budget computation of print_project_1 on every *)
(* bounded folder length and depth.  The root is built from Path::new(".") *)
(* whose file_name() is None, so the node of depth 0 has folder ""; a      *)
(* deeper node is built from a named directory entry.                      *)
BudgetInit ==
    /\ pc = "call"
    /\ overflow_checks \in BOOLEAN
    /\ level \in 0..MaxLevel
    /\ folder_len \in 0..MaxFolderLen
    /\ level = 0 <=> folder_len = 0
    /\ budget = None
    /\ PadIdle
    /\ MainIdle
    /\ TomlIdle
    /\ WalkIdle

ComputeBudget ==
    /\ pc = "call"
    /\ budget' = padded_text_len(folder_len, level, overflow_checks)
    /\ pc' = "returned"
    /\ UNCHANGED <<padVars, overflow_checks, folder_len, level, mainVars, tomlVars, walkVars>>

BudgetNext == ComputeBudget

SpecBudget == BudgetInit /\ [][BudgetNext]_vars

(* C9, as stated: whatever the folder length n and the depth d, the budget *)
(* is exactly 80 - n + 3 + 4*d, and it shrinks as n grows and as d grows.  *)
C9_AsStated ==
    pc = "returned" =>
        /\ budget = USize(80 - folder_len + 3 + 4 * level)
        /\ \A n2 \in 0..MaxFolderLen : n2 > folder_len =>
               /\ padded_text_len(n2, level, overflow_checks).kind = "ok"
               /\ padded_text_len(n2, level, overflow_checks).val < budget.val
        /\ \A d2 \in 0..MaxLevel : d2 > level =>
               /\ padded_text_len(folder_len, d2, overflow_checks).kind = "ok"
               /\ padded_text_len(folder_len, d2, overflow_checks).val < budget.val

(* C9, amended: for a folder length n <= 80 the budget is exactly          *)
(* 80 - n + 3 + 4*d; it shrinks by one with each further character of the  *)
(* folder label (up to 80) and GROWS by four with each further level of    *)
(* depth.  For n > 80 the subtraction 80 - n underflows: a build with      *)
(* overflow checks panics, a build without wraps modulo 2^64, which gives  *)
(* 83 + 4*d - n when that is >= 0 and 2^64 + 83 + 4*d - n otherwise.       *)
C9_Budget ==
    pc = "returned" =>
        /\ folder_len <= max_size =>
              /\ budget = USize(80 - folder_len + 3 + 4 * level)
              /\ \A n2 \in 0..max_size : n2 > folder_len =>
                     padded_text_len(n2, level, overflow_checks).val
                         = budget.val - (n2 - folder_len)
              /\ \A d2 \in 0..MaxLevel : d2 > level =>
                     padded_text_len(folder_len, d2, overflow_checks).val
                         = budget.val + 4 * (d2 - level)
        /\ folder_len > max_size =>
              /\ overflow_checks => budget = Panic
              /\ ~overflow_checks =>
                     budget = [kind |-> "ok",
                               wrapped |-> 83 + 4 * level - folder_len < 0,
                               val |-> 83 + 4 * level - folder_len]

C9_Witness ==
    /\ pc = "returned"
    /\ level = 2
    /\ folder_len = 5
    /\ budget = USize(86)

----------------------------------------------------------------------------
(* Option<T>, StringSet and the command line.                              *)
Some(v) == [kind |-> "some", val |-> v]

COMMA == ","
PLUS == "+"
MINUS == "-"

MaxRules == 3     \* most entries of the --highlight list

Names == {<<"a">>, <<"b">>, <<"c">>}

(* itertools::join / the text of a comma-separated command-line list.      *)
RECURSIVE Join(_, _)
Join(list, sep) ==
    IF list = <<>> THEN <<>>
    ELSE IF Len(list) = 1 THEN list[1]
    ELSE list[1] \o sep \o Join(Tail(list), sep)

RECURSIVE ListsUpTo(_, _)
ListsUpTo(S, n) ==
    IF n = 0 THEN {<<>>}
    ELSE LET shorter == ListsUpTo(S, n - 1)
         IN  shorter \cup {Append(l, x) : l \in {u \in shorter : Len(u) = n - 1}, x \in S}

(* The closure optional_list of main: the set of the pieces of l between   *)
(* commas; no option gives the empty set.                                  *)
optional_list(l) ==
    IF l = None THEN {}
    ELSE LET pieces == SplitOn(l.val, COMMA)
         IN  {pieces[i] : i \in 1..Len(pieces)}

(* The orders in which a HashMap with the keys S can iterate: the hasher   *)
(* of std::collections::HashMap is seeded at random in every run.          *)
Orders(S) ==
    {q \in [1..Cardinality(S) -> S] : \A i, j \in 1..Cardinality(S) : i # j => q[i] # q[j]}

KeyOrders(l) == Orders(optional_list(l))

(* let ignore_crates = optional_list(opt.ignore);                          *)
(* let highlight_crates = optional_list(opt.highlight);                    *)
OptionalLists ==
    /\ pc = "built"
    /\ ignore_crates' = optional_list(opt.ignore)
    /\ highlight_crates' \in KeyOrders(opt.highlight)
    /\ pc' = "options"
    /\ UNCHANGED <<padVars, budgetVars, tomlVars, walkVars, overflow_checks, opt, all, edge, stdout>>

----------------------------------------------------------------------------
(* The colour of an edge: print_nodes_1, lines 224-241.                    *)
starts_with(h, c) == h # <<>> /\ h[1] = c
Rest(h) == SubSeq(h, 2, Len(h))

BLUE == "[color=blue]"
RED == "[color=red]"
BLACK == "[color=black]"
TRANSPARENT == "[color=transparent]"

RECURSIVE HighlightLoop(_, _, _)
HighlightLoop(keys, from, to) ==
    IF keys = <<>> THEN TRANSPARENT
    ELSE LET h == Head(keys)
         IN  IF starts_with(h, PLUS) /\ from = Rest(h) THEN BLUE
             ELSE IF starts_with(h, MINUS) /\ to = Rest(h) THEN RED
             ELSE IF from = h \/ to = h THEN BLACK
             ELSE HighlightLoop(Tail(keys), from, to)

edge_attrs_uncoloured(highlight, from, to) ==
    IF highlight = <<>> THEN "" ELSE
    IF HighlightLoop(highlight, from, to) = TRANSPARENT THEN "" ELSE BLACK

edge_attrs(highlight, from, to) ==
    IF highlight = <<>> THEN "" ELSE HighlightLoop(highlight, from, to)

EdgeLine(from, to, attrs) == [line |-> "edge", from |-> from, to |-> to, attrs |-> attrs]

(* The specification of the colouring of one qualifying edge under every   *)
(* bounded --highlight list.                                               *)
RuleSet ==
    {<<PLUS>> \o x : x \in {<<"a">>, <<"b">>}} \cup {<<MINUS>> \o x : x \in {<<"a">>, <<"b">>}}
        \cup Names \cup {<<>>}

HighlightArgs ==
    {None} \cup {Some(Join(l, <<COMMA>>)) : l \in ListsUpTo(RuleSet, MaxRules) \ {<<>>}}

HighlightInit ==
    /\ pc = "built"
    /\ opt \in {[format |-> Some("Dot"), ignore |-> None, highlight |-> h] : h \in HighlightArgs}
    /\ edge \in {[from |-> f, to |-> t] : f \in Names, t \in Names}
    /\ all = None
    /\ ignore_crates = {}
    /\ highlight_crates = <<>>
    /\ stdout = <<>>
    /\ overflow_checks = FALSE
    /\ PadIdle
    /\ BudgetIdle
    /\ TomlIdle
    /\ WalkIdle

PrintEdge ==
    /\ pc = "options"
    /\ stdout' = Append(stdout, EdgeLine(edge.from, edge.to,
                                         edge_attrs(highlight_crates, edge.from, edge.to)))
    /\ pc' = "printed"
    /\ UNCHANGED <<padVars, budgetVars, tomlVars, walkVars, overflow_checks, opt, all, ignore_crates,
                   highlight_crates, edge>>

HighlightNext == OptionalLists \/ PrintEdge

SpecHighlight == HighlightInit /\ [][HighlightNext]_vars

(* What a rule of the list says about an edge, read off the documentation  *)
(* of --highlight: all_directions, +from, -to.                             *)
RuleMatches(h, from, to) ==
    \/ starts_with(h, PLUS) /\ Rest(h) = from
    \/ starts_with(h, MINUS) /\ Rest(h) = to
    \/ h = from \/ h = to

RuleColour(h, from, to) ==
    IF starts_with(h, PLUS) /\ Rest(h) = from THEN BLUE
    ELSE IF starts_with(h, MINUS) /\ Rest(h) = to THEN RED
    ELSE BLACK

Listed == IF opt.highlight = None THEN <<>> ELSE SplitOn(opt.highlight.val, COMMA)

(* C3: when several highlight rules match an edge, the edge gets the       *)
(* colour of the rule listed first in the --highlight list; with the rules *)
(* +a, -b, c in that order the edge a -> b is always blue.                 *)
C3_FirstListedWins ==
    pc = "printed" =>
        \A i \in 1..Len(Listed) :
            (/\ RuleMatches(Listed[i], edge.from, edge.to)
             /\ \A j \in 1..(i - 1) : ~RuleMatches(Listed[j], edge.from, edge.to))
                => stdout[1].attrs = RuleColour(Listed[i], edge.from, edge.to)

(* C8: without a highlight set the edge carries no colour; with one it     *)
(* carries exactly one colour: blue only for a matching +X rule, red only  *)
(* for a matching -X rule, black only for a matching bare rule, and        *)
(* transparent if and only if no rule matches; with the single rule +a     *)
(* every edge leaving a is blue.                                           *)
C8_EdgeColour ==
    pc = "printed" =>
        LET attrs == stdout[1].attrs
            from == edge.from
            to == edge.to
            H == optional_list(opt.highlight)
        IN  /\ H = {} <=> attrs = ""
            /\ H # {} =>
                  /\ attrs \in {BLUE, RED, BLACK, TRANSPARENT}
                  /\ attrs = BLUE => <<PLUS>> \o from \in H
                  /\ attrs = RED => <<MINUS>> \o to \in H
                  /\ attrs = BLACK => (from \in H \/ to \in H)
                  /\ attrs = TRANSPARENT <=> \A h \in H : ~RuleMatches(h, from, to)
            /\ (H = {<<PLUS, "a">>} /\ from = <<"a">>) => attrs = BLUE

C8_Witness ==
    /\ pc = "printed"
    /\ Cardinality(optional_list(opt.highlight)) = 3
    /\ stdout[1].attrs = RED
    /\ <<PLUS>> \o edge.from \notin optional_list(opt.highlight)
    /\ edge.from \in optional_list(opt.highlight)

----------------------------------------------------------------------------
(* Project trees.  A shape is the vector of the parents of the nodes       *)
(* 1..n, node 1 being the root and the children of a node being in         *)
(* directory-listing order.                                                *)
MaxDeps == 2      \* most dependencies declared in a tree

Shapes == {<<0>>, <<0, 1>>, <<0, 1, 1>>, <<0, 1, 2>>}
CrateNames == {<<"a">>, <<"b">>}
SERDE == <<"s", "e", "r", "d", "e">>
DepNames == CrateNames \cup {SERDE}

Project(folder, name, desc, subs, deps) ==
    [folder |-> folder, name |-> name, desc |-> desc, subs |-> subs, deps |-> deps]

RECURSIVE SelectOwned(_, _, _)
SelectOwned(flat, own, i) ==
    IF flat = <<>> THEN <<>>
    ELSE IF Head(own) = i THEN <<Head(flat)>> \o SelectOwned(Tail(flat), Tail(own), i)
    ELSE SelectOwned(Tail(flat), Tail(own), i)

RECURSIVE BuildProject(_, _, _, _, _)
BuildProject(shape, i, names, folders, deps) ==
    LET RECURSIVE kids(_)
        kids(j) == IF j > Len(shape) THEN <<>>
                   ELSE IF shape[j] = i
                        THEN <<BuildProject(shape, j, names, folders, deps)>> \o kids(j + 1)
                        ELSE kids(j + 1)
    IN  Project(folders[i], names[i], None, kids(i + 1), deps[i])

(* The trees with at most MaxDeps dependencies, whatever node declares     *)
(* them; the folder of the root is "" and the other folders are named,     *)
(* the directories of one parent differently.                              *)
Letter(i) == <<"a", "b", "c", "d", "e", "f", "g", "h">>[i]

Trees ==
    UNION {
        {BuildProject(shape, 1, names,
                      [i \in 1..Len(shape) |-> IF i = 1 THEN <<>> ELSE <<"f", Letter(i)>>],
                      [i \in 1..Len(shape) |-> SelectOwned(flat, own, i)]) :
            names \in [1..Len(shape) -> CrateNames],
            own \in [1..Len(flat) -> 1..Len(shape)]} :
        shape \in Shapes, flat \in ListsUpTo(DepNames, MaxDeps)}

----------------------------------------------------------------------------
(* collect_crate_names: the names of all the nodes of the tree.            *)
RECURSIVE collect_crate_names(_)
collect_crate_names(p) ==
    {p.name} \cup UNION {collect_crate_names(p.subs[i]) : i \in 1..Len(p.subs)}

(* str::replace("-", "_")                                                  *)
Replace(str, c, d) == [i \in 1..Len(str) |-> IF str[i] = c THEN d ELSE str[i]]

RECURSIVE FlatMap(_, _, _)
FlatMap(Op(_), list, i) ==
    IF i > Len(list) THEN <<>> ELSE Op(list[i]) \o FlatMap(Op, list, i + 1)

RECURSIVE print_clusters_1(_)
print_clusters_1(p) ==
    LET sub(q) == print_clusters_1(q)
    IN  (IF p.subs # <<>>
         THEN <<[line |-> "subgraph", id |-> <<"c", "l", "u", "s", "t", "e", "r", "_">>
                                              \o Replace(p.name, "-", "_")],
                [line |-> "label", name |-> p.name]>>
         ELSE <<>>)
        \o <<[line |-> "node", name |-> p.name]>>
        \o FlatMap(sub, p.subs, 1)
        \o (IF p.subs # <<>> THEN <<[line |-> "close"]>> ELSE <<>>)

(* The edge of one dependency of p, if print_nodes_1 prints one.           *)
no_ignores(ignore, from, to) == from \notin ignore /\ to \notin ignore

internal_dep_is_a_submodule(p, dep) == \E i \in 1..Len(p.subs) : p.subs[i].name = dep

EdgeOfDepWithChildren(p, dep, ignore, highlight, crates) ==
    IF dep \in crates /\ no_ignores(ignore, p.name, dep)
    THEN <<EdgeLine(p.name, dep, edge_attrs(highlight, p.name, dep))>>
    ELSE <<>>

EdgeOfDep(p, dep, ignore, highlight, crates) ==
    IF dep \in crates /\ no_ignores(ignore, p.name, dep) /\ ~internal_dep_is_a_submodule(p, dep)
    THEN <<EdgeLine(p.name, dep, edge_attrs(highlight, p.name, dep))>>
    ELSE <<>>

RECURSIVE print_nodes_1(_, _, _, _)
print_nodes_1(p, ignore, highlight, crates) ==
    LET dep_edge(dep) == EdgeOfDep(p, dep, ignore, highlight, crates)
        sub(q) == print_nodes_1(q, ignore, highlight, crates)
    IN  FlatMap(dep_edge, p.deps, 1) \o FlatMap(sub, p.subs, 1)

print_project_dot(p, ignore, highlight) ==
    LET crates == collect_crate_names(p)
    IN  <<[line |-> "digraph"]>>
        \o print_clusters_1(p)
        \o print_nodes_1(p, ignore, highlight, crates)
        \o <<[line |-> "close"]>>

(* The specification of the dot renderer on every bounded tree.            *)
IgnoreArgs ==
    {None, Some(<<"a">>), Some(<<"b">>), Some(<<"a", COMMA, "c">>)}

DotHighlightArgs ==
    {None, Some(<<PLUS, "a">>), Some(<<"a", COMMA, MINUS, "b">>)}

DotInit ==
    /\ pc = "built"
    /\ all \in Trees
    /\ opt \in {[format |-> Some("Dot"), ignore |-> i, highlight |-> h] :
                    i \in IgnoreArgs, h \in DotHighlightArgs}
    /\ ignore_crates = {}
    /\ highlight_crates = <<>>
    /\ edge = None
    /\ stdout = <<>>
    /\ overflow_checks = FALSE
    /\ PadIdle
    /\ BudgetIdle
    /\ TomlIdle
    /\ WalkIdle

PrintProjectDot ==
    /\ pc = "options"
    /\ opt.format = Some("Dot")
    /\ all # None
    /\ stdout' = stdout \o print_project_dot(all, ignore_crates, highlight_crates)
    /\ pc' = "done"
    /\ UNCHANGED <<padVars, budgetVars, tomlVars, walkVars, overflow_checks, opt, all, ignore_crates,
                   highlight_crates, edge>>

DotNext == OptionalLists \/ PrintProjectDot

SpecDot == DotInit /\ [][DotNext]_vars

(* The nodes of a tree, depth first, a node before its children.           *)
RECURSIVE Preorder(_)
Preorder(p) == LET sub(q) == Preorder(q) IN <<p>> \o FlatMap(sub, p.subs, 1)

RECURSIVE SumTo(_, _)
SumTo(f(_), n) == IF n = 0 THEN 0 ELSE f(n) + SumTo(f, n - 1)

CountIn(list, Test(_)) ==
    LET one(i) == IF Test(list[i]) THEN 1 ELSE 0 IN SumTo(one, Len(list))

IsChildName(p, name) == \E i \in 1..Len(p.subs) : p.subs[i].name = name

(* The number of edges f -> t the claim allows: one for each declaration   *)
(* of t by a node named f that has no direct child named t, when t is the  *)
(* name of a node and neither f nor t is ignored.                          *)
EdgesDue(tree, ignore, f, t) ==
    LET nodes == Preorder(tree)
        due(i) == IF /\ nodes[i].name = f
                     /\ t \in {nodes[k].name : k \in 1..Len(nodes)}
                     /\ f \notin ignore /\ t \notin ignore
                     /\ ~IsChildName(nodes[i], t)
                  THEN LET isT(d) == d = t IN CountIn(nodes[i].deps, isT)
                  ELSE 0
    IN  SumTo(due, Len(nodes))

EdgeLines == SelectSeq(stdout, LAMBDA l : l.line = "edge")

(* C2: the edge pass emits no edge whose target is the name of a direct    *)
(* child of its source node and no edge with an ignored source or target;  *)
(* every other internal dependency of every node is emitted as an edge.    *)
C2_Edges ==
    pc = "done" =>
        LET ignore == optional_list(opt.ignore)
            nodes == Preorder(all)
        IN  /\ \A i \in 1..Len(EdgeLines) :
                  /\ EdgeLines[i].from \notin ignore
                  /\ EdgeLines[i].to \notin ignore
                  /\ \E k \in 1..Len(nodes) :
                        /\ nodes[k].name = EdgeLines[i].from
                        /\ ~IsChildName(nodes[k], EdgeLines[i].to)
                        /\ \E d \in 1..Len(nodes[k].deps) : nodes[k].deps[d] = EdgeLines[i].to
            /\ \A f \in Names, t \in Names :
                  LET isEdge(l) == l.from = f /\ l.to = t
                  IN  CountIn(EdgeLines, isEdge) = EdgesDue(all, ignore, f, t)

C2_Witness ==
    /\ pc = "done"
    /\ Len(all.subs) = 1
    /\ all.deps = <<all.subs[1].name>>
    /\ all.subs[1].deps = <<all.name>>
    /\ all.name # all.subs[1].name
    /\ Len(EdgeLines) = 1
    /\ EdgeLines[1].from = all.subs[1].name

----------------------------------------------------------------------------
(* The text renderer.                                                      *)
RECURSIVE repeat(_, _)
repeat(str, n) == IF n = 0 THEN <<>> ELSE str \o repeat(str, n - 1)

(* A usize budget as the number pad_text compares lengths with: a value    *)
(* wrapped below zero is 2^64 + val, larger than the length of any text.   *)
USizeHuge == 2147483647
BudgetValue(b) == IF b.wrapped THEN USizeHuge ELSE b.val

NO_DESC == <<"<", "n", "o", " ", "d", "e", "s", "c", ">">>
COMMA_SPACE == <<COMMA, SP>>

TextLine(left_margin, label, tag, text) ==
    [line |-> "text", margin |-> left_margin, label |-> label, tag |-> tag, text |-> text]

Lines(left_margin, label, tag, texts) ==
    [i \in 1..Len(texts) |-> TextLine(left_margin, label, tag, texts[i])]

(* The lines print_project_1 prints for p itself, lines 153-185.           *)
HeaderLines(p, left_margin, folder_spaces, max) ==
    LET text == <<"[">> \o p.name \o <<"]", SP>>
                    \o (IF p.desc = None THEN NO_DESC ELSE p.desc.val)
        padded == pad_text(text, max)
    IN  [n \in 1..Len(padded) |->
            IF n = 1 THEN TextLine(left_margin, p.folder, " - ", padded[n])
            ELSE TextLine(left_margin, folder_spaces, "   ", padded[n])]

DepLinesAllExternal(p, crates, left_margin, folder_spaces, max) ==
    LET outside_workspace == Join(p.deps, COMMA_SPACE)
    IN  IF outside_workspace # <<>>
        THEN Lines(left_margin, folder_spaces, "   > ", pad_text(outside_workspace, max))
        ELSE <<>>

DepLines(p, crates, left_margin, folder_spaces, max) ==
    LET in_workspace == Join(SelectSeq(p.deps, LAMBDA dep : dep \in crates), COMMA_SPACE)
        outside_workspace == Join(SelectSeq(p.deps, LAMBDA dep : dep \notin crates), COMMA_SPACE)
    IN  (IF in_workspace # <<>>
         THEN Lines(left_margin, folder_spaces, "   < ", pad_text(in_workspace, max))
         ELSE <<>>)
        \o (IF outside_workspace # <<>>
            THEN Lines(left_margin, folder_spaces, "   > ", pad_text(outside_workspace, max))
            ELSE <<>>)

(* print_project_1 and its loop over p.subs: [out, ok], the lines printed  *)
(* and whether the call returned (ok) or panicked on the budget.           *)
RECURSIVE print_project_1(_, _, _, _)
RECURSIVE PrintSubs(_, _, _, _, _, _)
print_project_1(p, crates, lvl, checks) ==
    LET b == padded_text_len(Len(p.folder), lvl, checks)
        left_margin == repeat(<<SP, SP, SP, "|">>, lvl)
        folder_spaces == repeat(<<SP>>, Len(p.folder))
    IN  IF b.kind = "panic" THEN [out |-> <<>>, ok |-> FALSE]
        ELSE PrintSubs(p.subs, 1, crates, lvl, checks,
                       HeaderLines(p, left_margin, folder_spaces, BudgetValue(b))
                           \o DepLines(p, crates, left_margin, folder_spaces, BudgetValue(b)))

PrintSubs(subs, i, crates, lvl, checks, printed) ==
    IF i > Len(subs) THEN [out |-> printed, ok |-> TRUE]
    ELSE LET rail == [line |-> "rail", margin |-> repeat(<<SP, SP, SP, "|">>, lvl)]
             r == print_project_1(subs[i], crates, lvl + 1, checks)
         IN  IF r.ok THEN PrintSubs(subs, i + 1, crates, lvl, checks,
                                    printed \o <<rail>> \o r.out)
             ELSE [out |-> printed \o <<rail>> \o r.out, ok |-> FALSE]

print_project_text(p, checks) ==
    LET r == print_project_1(p, collect_crate_names(p), 0, checks)
    IN  [out |-> [n \in 1..5 |-> [line |-> "legend", n |-> n]] \o r.out, ok |-> r.ok]

unwrap_or(o, default) == IF o = None THEN default ELSE o.val

(* The trees of the text renderer: those of Trees with the folders of the  *)
(* directories below the root 80 characters long (the budget is 3 + 4 *    *)
(* level and the texts wrap) or 88 (the budget underflows), and the crates *)
(* with or without a description.                                          *)
FolderLens == {80, 88}
Descs == {None, Some(<<"d", SP, "e">>)}

RECURSIVE Dress(_, _, _)
Dress(p, n, desc) ==
    LET sub(q) == <<Dress(q, n, desc)>>
    IN  Project(IF p.folder = <<>> THEN <<>>
                ELSE repeat(<<"f">>, n - 1) \o <<p.folder[Len(p.folder)]>>,
                p.name, desc, FlatMap(sub, p.subs, 1), p.deps)

TextTrees == {Dress(tree, n, d) : tree \in Trees, n \in FolderLens, d \in Descs}

TextInit ==
    /\ pc = "built"
    /\ all \in TextTrees
    /\ opt = [format |-> None, ignore |-> None, highlight |-> None]
    /\ overflow_checks \in BOOLEAN
    /\ ignore_crates = {}
    /\ highlight_crates = <<>>
    /\ edge = None
    /\ stdout = <<>>
    /\ PadIdle
    /\ BudgetIdle
    /\ TomlIdle
    /\ WalkIdle

PrintProjectText ==
    /\ pc = "options"
    /\ unwrap_or(opt.format, "Text") = "Text"
    /\ all # None
    /\ LET r == print_project_text(all, overflow_checks)
       IN  /\ stdout' = stdout \o r.out
           /\ pc' = IF r.ok THEN "done" ELSE "panicked"
    /\ UNCHANGED <<padVars, budgetVars, tomlVars, walkVars, overflow_checks, opt, all, ignore_crates,
                   highlight_crates, edge>>

TextNext == OptionalLists \/ PrintProjectText

SpecText == TextInit /\ [][TextNext]_vars

(* Reading the report back: the lines of the k-th node printed run from    *)
(* its " - " line to the line before the next " - " line, and the names of *)
(* a dependency list are the words of its lines without their commas.      *)
ReportLines == SelectSeq(stdout, LAMBDA l : l.line = "text")

HeaderAt == {i \in 1..Len(ReportLines) : ReportLines[i].tag = " - "}

NodeLines(k) ==
    LET first == CHOOSE i \in HeaderAt : Cardinality({j \in HeaderAt : j <= i}) = k
        later == {j \in HeaderAt : j > first}
        last == IF later = {} THEN Len(ReportLines)
                ELSE (CHOOSE j \in later : \A j2 \in later : j <= j2) - 1
    IN  SubSeq(ReportLines, first, last)

StripComma(w) == IF w # <<>> /\ w[Len(w)] = COMMA THEN SubSeq(w, 1, Len(w) - 1) ELSE w

ListShown(k, tag) ==
    LET lines == SelectSeq(NodeLines(k), LAMBDA l : l.tag = tag)
        words == WordsOfLines([i \in 1..Len(lines) |-> lines[i].text])
    IN  [lines |-> Len(lines), names |-> [i \in 1..Len(words) |-> StripComma(words[i])]]

----------------------------------------------------------------------------
(* The manifest.  A Cargo.toml is given as declared: a table is the        *)
(* sequence of its [k, v] entries in the order of the file, the keys of a  *)
(* table being distinct.  toml::Value::Table is a BTreeMap<String, Value>  *)
(* (the toml crate's default, without its preserve_order feature), so the  *)
(* code iterates a table in ascending order of its keys.                   *)
MaxTableKeys == 2    \* most keys of a [dependencies] table

TString(str) == [t |-> "String", s |-> str]
TTable(entries) == [t |-> "Table", entries |-> entries]
Entry(k, v) == [k |-> k, v |-> v]

AsciiOrder ==
    <<"-", ".", "_", "a", "b", "c", "d", "e", "f", "g", "h", "i", "j", "k", "l", "m",
      "n", "o", "p", "q", "r", "s", "t", "u", "v", "w", "x", "y", "z">>
Rank(c) == CHOOSE i \in 1..Len(AsciiOrder) : AsciiOrder[i] = c

(* The order of String: byte by byte, a proper prefix first.               *)
RECURSIVE LexLess(_, _)
LexLess(x, y) ==
    IF y = <<>> THEN FALSE
    ELSE IF x = <<>> THEN TRUE
    ELSE IF Head(x) = Head(y) THEN LexLess(Tail(x), Tail(y))
    ELSE Rank(Head(x)) < Rank(Head(y))

RECURSIVE InsertByKey(_, _)
InsertByKey(e, sorted) ==
    IF sorted = <<>> THEN <<e>>
    ELSE IF LexLess(e.k, Head(sorted).k) THEN <<e>> \o sorted
    ELSE <<Head(sorted)>> \o InsertByKey(e, Tail(sorted))

RECURSIVE SortByKey(_)
SortByKey(entries) ==
    IF entries = <<>> THEN <<>> ELSE InsertByKey(Head(entries), SortByKey(Tail(entries)))

(* Iteration over a table as an insertion-ordered map would give it.       *)
TableIterAsDeclared(tbl) == tbl.entries

(* for (k, v) in table / table.keys()                                      *)
TableIter(tbl) == SortByKey(tbl.entries)

TableKeys(tbl) == LET it == TableIter(tbl) IN [i \in 1..Len(it) |-> it[i].k]

(* table.get(key)                                                          *)
TableGet(tbl, key) ==
    IF \E i \in 1..Len(tbl.entries) : tbl.entries[i].k = key
    THEN Some((CHOOSE e \in {tbl.entries[i] : i \in 1..Len(tbl.entries)} : e.k = key).v)
    ELSE None

KEY_PACKAGE == <<"p", "a", "c", "k", "a", "g", "e">>
KEY_DEPENDENCIES == <<"d", "e", "p", "e", "n", "d", "e", "n", "c", "i", "e", "s">>
KEY_NAME == <<"n", "a", "m", "e">>
KEY_DESCRIPTION == <<"d", "e", "s", "c", "r", "i", "p", "t", "i", "o", "n">>
KEY_BIN == <<"b", "i", "n">>
DOTTED == KEY_DEPENDENCIES \o <<".">>

HasPrefix(k, prefix) == Len(k) >= Len(prefix) /\ SubSeq(k, 1, Len(prefix)) = prefix

(* .get(key).map(|v| v2str(v)).cloned(): [panic, val]                      *)
GetStr(tbl, key) ==
    LET v == TableGet(tbl, key)
    IN  IF v = None THEN [panic |-> FALSE, val |-> None]
        ELSE IF v.val.t = "String" THEN [panic |-> FALSE, val |-> Some(v.val.s)]
        ELSE [panic |-> TRUE, val |-> None]

(* One turn of the loop over the top-level table, lines 69-90.             *)
ManifestStep(st, k, v) ==
    IF st.panic THEN st
    ELSE IF k = KEY_PACKAGE
    THEN IF v.t # "Table" THEN [st EXCEPT !.panic = TRUE]
         ELSE LET d == GetStr(v, KEY_DESCRIPTION)
                  n == GetStr(v, KEY_NAME)
              IN  IF d.panic \/ n.panic THEN [st EXCEPT !.panic = TRUE]
                  ELSE [st EXCEPT !.desc = d.val, !.name = n.val]
    ELSE IF k = KEY_DEPENDENCIES
    THEN IF v.t # "Table" THEN [st EXCEPT !.panic = TRUE]
         ELSE [st EXCEPT !.deps = st.deps \o TableKeys(v)]
    ELSE IF HasPrefix(k, DOTTED)
    THEN [st EXCEPT !.deps = Append(st.deps, SubSeq(k, Len(DOTTED) + 1, Len(k)))]
    ELSE st

RECURSIVE ManifestLoop(_, _)
ManifestLoop(st, entries) ==
    IF entries = <<>> THEN st
    ELSE ManifestLoop(ManifestStep(st, Head(entries).k, Head(entries).v), Tail(entries))

(* Lines 63-90 of process_folder on the text of a manifest: a text that is *)
(* no TOML panics in expect("Unable to parse toml").                       *)
Unparsable == [t |-> "Unparsable"]

ParseManifest(toml) ==
    IF toml = Unparsable THEN [panic |-> TRUE, name |-> None, desc |-> None, deps |-> <<>>]
    ELSE ManifestLoop([panic |-> FALSE, name |-> None, desc |-> None, deps |-> <<>>],
                      TableIter(toml))

(* The specification of the manifest loop on every bounded manifest.       *)
InjectiveLists(S, n) == UNION {Orders(T) : T \in {U \in SUBSET S : Cardinality(U) <= n}}

PackageValues ==
    {TTable(<<Entry(KEY_NAME, TString(<<"a">>)), Entry(KEY_DESCRIPTION, TString(<<"d">>))>>),
     TTable(<<Entry(KEY_DESCRIPTION, TString(<<"d">>))>>),
     TString(<<"a">>)}

DependenciesValues ==
    {TTable([i \in 1..Len(keys) |-> Entry(keys[i], TString(<<"1">>))]) :
        keys \in InjectiveLists(DepNames, MaxTableKeys)}
    \cup {TString(<<"1">>)}

TopLevelKeys ==
    {KEY_PACKAGE, KEY_DEPENDENCIES, DOTTED \o <<"a">>, DOTTED \o <<"b">>, KEY_BIN}

Manifests ==
    UNION {
        {TTable([i \in 1..Len(keys) |->
                    Entry(keys[i],
                          IF keys[i] = KEY_PACKAGE THEN package
                          ELSE IF keys[i] = KEY_DEPENDENCIES THEN dependencies
                          ELSE TTable(<<>>))]) :
            package \in PackageValues, dependencies \in DependenciesValues} :
        keys \in InjectiveLists(TopLevelKeys, Cardinality(TopLevelKeys))}

ManifestInit ==
    /\ pc = "call"
    /\ manifest \in Manifests
    /\ parsed = None
    /\ overflow_checks = FALSE
    /\ PadIdle
    /\ BudgetIdle
    /\ MainIdle
    /\ WalkIdle

ReadManifest ==
    /\ pc = "call"
    /\ parsed' = ParseManifest(manifest)
    /\ pc' = IF parsed'.panic THEN "panicked" ELSE "returned"
    /\ UNCHANGED <<padVars, budgetVars, mainVars, walkVars, overflow_checks, manifest>>

ManifestNext == ReadManifest

SpecManifest == ManifestInit /\ [][ManifestNext]_vars

(* What the manifest declares, in the order of the file.                   *)
DeclaredTableKeys ==
    LET d == TableGet(manifest, KEY_DEPENDENCIES)
    IN  IF d = None \/ d.val.t # "Table" THEN <<>>
        ELSE [i \in 1..Len(d.val.entries) |-> d.val.entries[i].k]

DeclaredDotted ==
    LET dotted == SelectSeq(manifest.entries, LAMBDA e : HasPrefix(e.k, DOTTED))
    IN  [i \in 1..Len(dotted) |-> SubSeq(dotted[i].k, Len(DOTTED) + 1, Len(dotted[i].k))]

Ascending(list) == \A i \in 1..(Len(list) - 1) : LexLess(list[i], list[i + 1])
SetOf(list) == {list[i] : i \in 1..Len(list)}

----------------------------------------------------------------------------
(* The whole program on a small directory tree.  Entry 1 is ".", entries 2 *)
(* and 3 are in it and entry 4 is in entry 2.  An entry is a directory     *)
(* ("dir"), a directory whose read_dir() fails ("locked"), something else  *)
(* ("file"), or an Err item of the read_dir iterator ("error"); a          *)
(* directory has a manifest, None when Cargo.toml cannot be read.          *)
DirParent == <<0, 1, 1, 2>>
Entries == 1..Len(DirParent)
Children(d) == {e \in Entries : DirParent[e] = d}

RECURSIVE Descendants(_)
Descendants(d) == Children(d) \cup UNION {Descendants(e) : e \in Children(d)}

(* path.file_name(): None for ".", the name of the entry otherwise.        *)
FolderOf(d) == IF d = 1 THEN <<>> ELSE <<"f", AsciiOrder[3 + d]>>
CrateOf(d) == <<AsciiOrder[3 + d]>>

PackageOf(d) ==
    Entry(KEY_PACKAGE, TTable(<<Entry(KEY_NAME, TString(CrateOf(d))),
                                Entry(KEY_DESCRIPTION, TString(<<"d">>))>>))

ManifestsOf(d) ==
    <<None,
      Unparsable,
      TTable(<<Entry(KEY_PACKAGE, TString(CrateOf(d)))>>),
      TTable(<<PackageOf(d), Entry(KEY_DEPENDENCIES, TString(<<"1">>))>>),
      TTable(<<Entry(KEY_PACKAGE, TTable(<<Entry(KEY_DESCRIPTION, TString(<<"d">>))>>))>>),
      TTable(<<PackageOf(d),
               Entry(KEY_DEPENDENCIES, TTable(<<Entry(SERDE, TString(<<"1">>)),
                                                Entry(<<"a">>, TString(<<"1">>))>>))>>)>>

IsDir(e) == fs[e].kind \in {"dir", "locked"}

(* process_folder up to its loop over read_dir, lines 62-92: "none" when   *)
(* the manifest cannot be read, "panic" when it cannot be parsed or when   *)
(* read_dir() fails, else the frame of the call.                           *)
EnterLenient(d) ==
    IF fs[d].manifest = None \/ ParseManifest(fs[d].manifest).panic THEN [r |-> "none"]
    ELSE [r |-> "frame",
          frame |-> [path |-> d,
                     name |-> ParseManifest(fs[d].manifest).name,
                     desc |-> ParseManifest(fs[d].manifest).desc,
                     deps |-> ParseManifest(fs[d].manifest).deps,
                     subs |-> <<>>,
                     todo |-> Children(d)]]

EnterDeep(d) ==
    IF fs[d].manifest = None THEN [r |-> "none"]
    ELSE IF ParseManifest(fs[d].manifest).panic \/ fs[d].kind = "locked" THEN [r |-> "panic"]
    ELSE [r |-> "frame",
          frame |-> [path |-> d,
                     name |-> ParseManifest(fs[d].manifest).name,
                     desc |-> ParseManifest(fs[d].manifest).desc,
                     deps |-> ParseManifest(fs[d].manifest).deps,
                     subs |-> <<>>,
                     todo |-> Descendants(d)]]

Enter(d) ==
    IF fs[d].manifest = None THEN [r |-> "none"]
    ELSE IF ParseManifest(fs[d].manifest).panic \/ fs[d].kind = "locked" THEN [r |-> "panic"]
    ELSE [r |-> "frame",
          frame |-> [path |-> d,
                     name |-> ParseManifest(fs[d].manifest).name,
                     desc |-> ParseManifest(fs[d].manifest).desc,
                     deps |-> ParseManifest(fs[d].manifest).deps,
                     subs |-> <<>>,
                     todo |-> Children(d)]]

Top == stack[Len(stack)]
SetTop(frame) == [stack EXCEPT ![Len(stack)] = frame]

FileSystems ==
    {[d \in Entries |->
         [kind |-> kind[d],
          manifest |-> IF kind[d] \in {"file", "error"} THEN None
                       ELSE ManifestsOf(d)[which[d]]]] :
        kind \in {k \in [Entries -> {"dir", "locked", "file", "error"}] :
                      k[1] = "dir" /\ k[2] = "dir"},
        which \in [Entries -> 1..6]}

Init ==
    /\ pc = "start"
    /\ fs \in FileSystems
    /\ opt \in {[format |-> f, ignore |-> None, highlight |-> h] :
                    f \in {None, Some("Dot")}, h \in {None, Some(<<MINUS, "a">>)}}
    /\ stack = <<>>
    /\ calls = <<>>
    /\ listed = {}
    /\ all = None
    /\ ignore_crates = {}
    /\ highlight_crates = <<>>
    /\ edge = None
    /\ stdout = <<>>
    /\ overflow_checks = FALSE
    /\ PadIdle
    /\ BudgetIdle
    /\ TomlIdle

(* main: process_folder(Path::new(".")).expect("Cannot process folder")    *)
StartWalk ==
    /\ pc = "start"
    /\ calls' = Append(calls, 1)
    /\ LET r == Enter(1)
       IN  IF r.r = "frame"
           THEN stack' = <<r.frame>> /\ pc' = "walking"
           ELSE stack' = stack /\ pc' = "panicked"
    /\ UNCHANGED <<padVars, budgetVars, tomlVars, mainVars, overflow_checks, fs, listed>>

(* One turn of the loop over path.read_dir(), lines 92-99; the entries     *)
(* come in the order of the platform.                                      *)
ReadDirEntry ==
    /\ pc = "walking"
    /\ Top.todo # {}
    /\ \E e \in Top.todo :
          LET rest == [Top EXCEPT !.todo = Top.todo \ {e}]
          IN  /\ listed' = listed \cup {e}
              /\ IF fs[e].kind = "error"
                 THEN pc' = "panicked" /\ UNCHANGED <<stack, calls>>
                 ELSE IF ~IsDir(e)
                 THEN pc' = pc /\ stack' = SetTop(rest) /\ UNCHANGED calls
                 ELSE /\ calls' = Append(calls, e)
                      /\ LET r == Enter(e)
                         IN  IF r.r = "none" THEN pc' = pc /\ stack' = SetTop(rest)
                             ELSE IF r.r = "panic" THEN pc' = "panicked" /\ stack' = stack
                             ELSE pc' = pc /\ stack' = Append(SetTop(rest), r.frame)
    /\ UNCHANGED <<padVars, budgetVars, tomlVars, mainVars, overflow_checks, fs>>

(* The end of process_folder, lines 100-110: the crate without a name      *)
(* panics, the Project goes to the subs of the caller or to main.          *)
ReturnProject ==
    /\ pc = "walking"
    /\ Top.todo = {}
    /\ IF Top.name = None
       THEN pc' = "panicked" /\ UNCHANGED <<stack, all>>
       ELSE LET project == Project(FolderOf(Top.path), Top.name.val, Top.desc, Top.subs, Top.deps)
                n == Len(stack)
            IN  IF n = 1
                THEN all' = project /\ stack' = <<>> /\ pc' = "built"
                ELSE /\ stack' = [SubSeq(stack, 1, n - 1) EXCEPT
                                     ![n - 1].subs = Append(stack[n - 1].subs, project)]
                     /\ pc' = pc
                     /\ all' = all
    /\ UNCHANGED <<padVars, budgetVars, tomlVars, overflow_checks, fs, calls, listed,
                   opt, ignore_crates, highlight_crates, edge, stdout>>

Next ==
    \/ StartWalk
    \/ ReadDirEntry
    \/ ReturnProject
    \/ OptionalLists
    \/ PrintProjectText
    \/ PrintProjectDot

Spec == Init /\ [][Next]_vars

(* What the claims speak of, read off the directory tree.                  *)
HasManifest(d) == fs[d].manifest # None

RECURSIVE Ancestors(_)
Ancestors(d) == IF DirParent[d] = 0 THEN {} ELSE {DirParent[d]} \cup Ancestors(DirParent[d])

Called == {calls[i] : i \in 1..Len(calls)}

(* The directories that have a node in the built tree.                     *)
NodeDirs ==
    IF all = None THEN {}
    ELSE {d \in Entries : \E k \in 1..Len(Preorder(all)) : Preorder(all)[k].folder = FolderOf(d)}

(* C1: a directory without a manifest yields no node and process_folder is *)
(* not called on any of its subdirectories, so that no descendant of it    *)
(* has a node even when it has a manifest itself; every immediate          *)
(* subdirectory of a directory that yielded a node is tried.               *)
C1_DeadEnd ==
    /\ \A d \in Called : d # 1 => (DirParent[d] \in Called /\ HasManifest(DirParent[d]))
    /\ \A d \in Entries : ~HasManifest(d) => Children(d) \cap Called = {}
    /\ all # None =>
          /\ \A d \in NodeDirs : HasManifest(d) /\ \A a \in Ancestors(d) : HasManifest(a)
          /\ \A d \in Entries :
                (~HasManifest(d) \/ \E a \in Ancestors(d) : ~HasManifest(a)) => d \notin NodeDirs
          /\ \A d \in NodeDirs : \A e \in Children(d) :
                /\ IsDir(e) => e \in Called
                /\ (IsDir(e) /\ HasManifest(e)) => e \in NodeDirs

C1_Witness ==
    /\ pc = "built"
    /\ ~HasManifest(2)
    /\ IsDir(4) /\ HasManifest(4) /\ ~ParseManifest(fs[4].manifest).panic
    /\ 4 \notin Called
    /\ NodeDirs = {1, 3}

(* The fatal conditions of a manifest, and those the walk has met so far:  *)
(* a manifest is judged when process_folder is called on its directory,    *)
(* the missing name when that call ends, an entry when read_dir yields it. *)
SectionNotTable(m, key) ==
    TableGet(m, key) # None /\ TableGet(m, key).val.t # "Table"

NoPackageName(m) ==
    \/ TableGet(m, KEY_PACKAGE) = None
    \/ /\ TableGet(m, KEY_PACKAGE).val.t = "Table"
       /\ TableGet(TableGet(m, KEY_PACKAGE).val, KEY_NAME) = None

FatalAtCall(d) ==
    /\ HasManifest(d)
    /\ \/ fs[d].manifest = Unparsable
       \/ SectionNotTable(fs[d].manifest, KEY_PACKAGE)
       \/ SectionNotTable(fs[d].manifest, KEY_DEPENDENCIES)
       \/ fs[d].kind = "locked"

FatalAtReturn(d) ==
    /\ HasManifest(d)
    /\ ~FatalAtCall(d)
    /\ NoPackageName(fs[d].manifest)

OnStack(d) == \E i \in 1..Len(stack) : stack[i].path = d

FatalMet ==
    \/ \E d \in Called : FatalAtCall(d)
    \/ \E d \in Called : FatalAtReturn(d) /\ ~(OnStack(d) /\ pc = "walking")
    \/ \E e \in listed : fs[e].kind = "error"

(* C6: every fatal condition met in the walk aborts the run, and nothing   *)
(* is printed before the whole tree is built: a run that meets a fatal     *)
(* condition prints nothing at all.                                        *)
C6_FailFast ==
    /\ FatalMet => (pc = "panicked" /\ all = None /\ stdout = <<>>)
    /\ stdout # <<>> => (pc = "done" /\ all # None /\ stack = <<>> /\ ~FatalMet)
    /\ all # None =>
          /\ \A d \in Called : ~FatalAtCall(d) /\ ~FatalAtReturn(d)
          /\ \A d \in NodeDirs : \A e \in Children(d) : e \in listed /\ fs[e].kind # "error"

C6_Witness ==
    /\ pc = "panicked"
    /\ calls = <<1, 3, 2, 4>>
    /\ FatalAtReturn(4)
    /\ Len(stack) = 3
    /\ Len(stack[1].subs) = 1
    /\ stdout = <<>>

====
